---- MODULE Spec2Model ----
(***************************************************************************)
(* Model of the image-enhancement pipeline of src/graph/workflow.py: the   *)
(* LangGraph orchestrator (quality_check -> enhance -> generate_video),    *)
(* the thread-local step buffer, the Galileo singleton, the locked replay  *)
(* of a run's steps and the batch flush.                                   *)
(***************************************************************************)
EXTENDS Integers, Sequences, FiniteSets, TLC

\* ---------------------------------------------------------------- bounds
MaxRuns == 2        \* run_pipeline calls explored in one behaviour
MaxCalls == 1       \* stand-alone flush_galileo / reset_galileo calls explored
MaxFaults == 1      \* remote calls (or client constructions) that raise
MaxLimit == 2       \* largest max_iterations a caller supplies

Threads == {1, 2}
NoThread == 0
None == 0           \* Python None for the ObserveWorkflows holder

Limits == (-1)..MaxLimit
Configs == {"ok", "nolib", "nokey"}

VARIABLES
  config,            \* environment: library importable / GALILEO_API_KEY set
  scope,             \* the callers explored: threads, arguments, number of runs
  pc,                \* per thread: position in run_pipeline / flush / reset
  args,              \* per thread: arguments of the running run_pipeline
  st,                \* per thread: the LangGraph state of the running graph
  loc,               \* per thread: locals (final_state, pipeline_error, ow, ...)
  steps,             \* _thread_local.steps, one buffer per buffer key
  observe_workflows, \* module global _observe_workflows
  galileo_init_done, \* module global _galileo_init_done
  galileo_lock,      \* holder of _galileo_lock, NoThread when free
  calls,             \* remote calls issued to ObserveWorkflows clients, in order
  runs,              \* history: one record per run_pipeline call
  counters           \* clients constructed, faults injected, stand-alone calls

vars == <<config, scope, pc, args, st, loc, steps, observe_workflows,
          galileo_init_done, galileo_lock, calls, runs, counters>>

\* ------------------------------------------------------- state.py / callers
\* The initial state every caller builds (main.py, bulk_run.py, anomaly_test.py):
\* image_path counts the enhancement that produced the current image (0 = the
\* original), quality_scores counts the assessment that produced the scores
\* (0 = {}), video_output_path is 0 for "" and 1 for the generated video.
InitialState(limit) ==
  [image_path |-> 0, quality_scores |-> 0, quality_passed |-> FALSE,
   enhancement_iteration |-> 0, max_iterations |-> limit,
   video_output_path |-> 0, status |-> "Starting pipeline"]

NoArgs == [initial_state |-> InitialState(0), defer_upload |-> FALSE,
           raise_on_error |-> FALSE, run |-> 0]

NoLoc == [final_state |-> InitialState(0), pipeline_error |-> "none",
          ow |-> None, idx |-> 0, caller |-> "none",
          has_errors |-> FALSE, wf_code |-> 0, flushed |-> -1,
          escaped |-> "none", done |-> <<>>]

\* ------------------------------------------------------------ step buffer
\* a buffer that is one module-level list: every thread sees the same one
BufferOfShared(t) == 1
\* threading.local(): the buffer a thread sees is keyed by the thread itself
BufferOf(t) == t

_get_step_buffer(t) == steps[BufferOf(t)]

\* a clear that leaves the records where they are
ClearedNot(buf) == buf
\* list.clear() of the calling thread's buffer
Cleared(buf) == <<>>

\* a wrapper that records every step as ok
ObservedStatusOk(raised) == 200
\* status code _observed hands to _collect_step
ObservedStatus(raised) == IF raised THEN 500 ELSE 200

StepRecord(r, k, node, code) ==
  [run |-> r, seq |-> k, node_name |-> node, status_code |-> code]

\* a collector that puts the newest record first
CollectStepInFront(t, node, code) ==
  LET r == args[t].run
      k == Len(runs[r].trace) + 1
  IN  [steps EXCEPT ![BufferOf(t)] = <<StepRecord(r, k, node, code)>> \o @]
\* _collect_step: append one record to the calling thread's buffer
_collect_step(t, node, code) ==
  LET r == args[t].run
      k == Len(runs[r].trace) + 1
  IN  [steps EXCEPT ![BufferOf(t)] = Append(@, StepRecord(r, k, node, code))]

\* ------------------------------------------------------------------ nodes
\* an assessment that reports success whatever the scores are
QualityCheckUpdatePassesAll(s, passed) ==
  [s EXCEPT !.quality_scores = @ + 1, !.quality_passed = TRUE,
            !.status = "Quality check passed"]
\* quality_check_agent: partial update merged into the state
QualityCheckUpdate(s, passed) ==
  [s EXCEPT !.quality_scores = @ + 1,
            !.quality_passed = passed,
            !.status = IF passed THEN "Quality check passed"
                                 ELSE "Quality check failed"]

\* an improve stage that forgets to count itself
EnhanceUpdateNoCount(s) ==
  [s EXCEPT !.image_path = s.enhancement_iteration + 1, !.status = "Enhanced image"]
\* enhancement_agent: iteration = state.enhancement_iteration + 1
EnhanceUpdate(s) ==
  [s EXCEPT !.image_path = s.enhancement_iteration + 1,
            !.enhancement_iteration = s.enhancement_iteration + 1,
            !.status = "Enhanced image"]

\* a finalize stage that also starts the iteration count afresh
GenerateVideoUpdateResets(s) ==
  [s EXCEPT !.video_output_path = 1, !.status = "Video generated",
            !.enhancement_iteration = 0]
\* video_generation_agent
GenerateVideoUpdate(s) ==
  [s EXCEPT !.video_output_path = 1, !.status = "Video generated"]

\* a router without the forced exit
ShouldContinueNoLimit(s) ==
  IF s.quality_passed THEN "generate_video" ELSE "enhance"
\* _should_continue: the conditional edge after quality_check
_should_continue(s) ==
  IF s.quality_passed THEN "generate_video"
  ELSE IF s.enhancement_iteration >= s.max_iterations THEN "generate_video"
  ELSE "enhance"

\* ------------------------------------------------------- remote call log
Call(op, t, client, ok, rec, code, he) ==
  [op |-> op, thread |-> t, run |-> args[t].run, client |-> client, ok |-> ok,
   rec |-> rec, code |-> code, has_errors |-> he]

NoRec == StepRecord(0, 0, "none", 0)

\* workflows an ObserveWorkflows client holds: begun on it since its last
\* successful upload
RECURSIVE PendingFrom(_, _, _)
PendingFrom(log, client, n) ==
  IF n = 0 THEN 0
  ELSE LET c == log[n] IN
       IF c.client = client /\ c.op = "upload" /\ c.ok THEN 0
       ELSE PendingFrom(log, client, n - 1)
            + (IF c.client = client /\ c.op = "begin" /\ c.ok THEN 1 ELSE 0)
PendingWorkflows(client) == PendingFrom(calls, client, Len(calls))

CanFault == counters.faults < MaxFaults
Fault == [counters EXCEPT !.faults = @ + 1]

\* ------------------------------------------------------------------- Init
InitWith(sc) ==
  /\ config \in Configs
  /\ scope = sc
  /\ pc = [t \in Threads |-> "idle"]
  /\ args = [t \in Threads |-> NoArgs]
  /\ st = [t \in Threads |-> InitialState(0)]
  /\ loc = [t \in Threads |-> NoLoc]
  /\ steps = [t \in Threads |-> <<>>]
  /\ observe_workflows = None
  /\ galileo_init_done = FALSE
  /\ galileo_lock = NoThread
  /\ calls = <<>>
  /\ runs = <<>>
  /\ counters = [clients |-> 0, faults |-> 0, standalone |-> 0, built |-> 0]

Nodes == {"quality_check", "enhance", "generate_video"}

\* one caller, one run, every iteration limit and flag (main.py)
ScopeRun == [threads |-> {1}, callers |-> {1}, limits |-> Limits,
             passes |-> BOOLEAN, raises |-> Nodes,
             defers |-> BOOLEAN, roes |-> BOOLEAN, runs |-> 1, calls |-> MaxCalls]
\* one caller, several deferred runs in a row over images that fail the
\* assessment or break the enhancement (run_sequential_batch, run_anomaly_suite),
\* with room for a reset and a flush between them
ScopeSeq == [threads |-> {1}, callers |-> {1}, limits |-> {1},
             passes |-> {FALSE}, raises |-> {"enhance"},
             defers |-> {TRUE}, roes |-> {FALSE}, runs |-> MaxRuns,
             calls |-> MaxCalls + 1]
\* deferred runs on pool threads and the one flush (or a reset) of the
\* submitting thread (run_concurrent_batch)
ScopeConc == [threads |-> Threads, callers |-> {1}, limits |-> {1},
              passes |-> {FALSE}, raises |-> {"enhance"},
              defers |-> {TRUE}, roes |-> {FALSE}, runs |-> Cardinality(Threads),
              calls |-> 1]

\* the same pool, over images whose nodes all return: what is left to vary is
\* the telemetry path of the two threads
ScopeLock == [threads |-> Threads, callers |-> {1}, limits |-> {1},
              passes |-> {FALSE}, raises |-> {},
              defers |-> {TRUE}, roes |-> {FALSE}, runs |-> Cardinality(Threads),
              calls |-> 1]

\* one caller, two runs in a row that upload at once, with a reset or a flush
\* somewhere between them (run_sequential_per_run): the same image processed
\* twice, under whatever the telemetry backend does
ScopeTwin == [threads |-> {1}, callers |-> {1}, limits |-> {1},
              passes |-> BOOLEAN, raises |-> {"enhance"},
              defers |-> {FALSE}, roes |-> BOOLEAN, runs |-> 2, calls |-> 1]

Init == InitWith(ScopeRun)
InitSeq == InitWith(ScopeSeq)
InitConc == InitWith(ScopeConc)

\* ----------------------------------------------------------- run_pipeline
\* run_pipeline, lines 295-306: clear the thread's buffer, build the graph,
\* enter it at quality_check.
RunStart(t) ==
  /\ pc[t] = "idle" /\ t \in scope.threads
  /\ Len(runs) < scope.runs
  /\ \E limit \in scope.limits, defer \in scope.defers, roe \in scope.roes :
       /\ args' = [args EXCEPT ![t] =
                     [initial_state |-> InitialState(limit), defer_upload |-> defer,
                      raise_on_error |-> roe, run |-> Len(runs) + 1]]
       /\ st' = [st EXCEPT ![t] = InitialState(limit)]
       /\ runs' = Append(runs, [thread |-> t, limit |-> limit, defer_upload |-> defer,
                                raise_on_error |-> roe, trace |-> <<>>,
                                result |-> "running",
                                state |-> InitialState(limit), error |-> "none",
                                after |-> <<>>])
  /\ steps' = [steps EXCEPT ![BufferOf(t)] = Cleared(@)]
  /\ loc' = [loc EXCEPT ![t] = NoLoc]
  /\ pc' = [pc EXCEPT ![t] = "quality_check"]
  /\ UNCHANGED <<config, scope, observe_workflows, galileo_init_done,
                 galileo_lock, calls, counters>>

Traced(t, node, outcome) ==
  [runs EXCEPT ![args[t].run].trace = Append(@, [node |-> node, outcome |-> outcome])]

\* a run_pipeline that lets the exception through when asked to re-raise
HaltedPcRaisesAtOnce(t) == IF args[t].raise_on_error THEN "finish" ELSE "replay"
\* The graph halts on the first exception; run_pipeline (lines 309-313) keeps
\* the exception and copies the initial state with an error status.
HaltedPc(t) == "replay"

\* a wrapper that re-raises without recording the failed step
ObservedRaiseUnrecorded(t, node) == steps
\* _observed, lines 209-218: the except branch records the failed step
ObservedRaise(t, node) == _collect_step(t, node, ObservedStatus(TRUE))

\* an error path that returns the caller's state untouched
ErrorStateUntagged(initial_state) == initial_state
\* lines 311-312: final_state = dict(initial_state), status "PIPELINE_ERROR: ..."
ErrorState(initial_state) == [initial_state EXCEPT !.status = "PIPELINE_ERROR"]

\* a wrapper that records the failure and returns an empty update instead of
\* raising: the graph carries on along its edges
NodeRaisesSwallowed(t, node) ==
  /\ node \in scope.raises
  /\ steps' = ObservedRaise(t, node)
  /\ runs' = Traced(t, node, "raise")
  /\ LET next == IF node = "quality_check" THEN _should_continue(st[t])
                 ELSE IF node = "enhance" THEN "quality_check" ELSE "END"
     IN  IF next = "END"
           THEN /\ loc' = [loc EXCEPT ![t].final_state = st[t]]
                /\ pc' = [pc EXCEPT ![t] = "replay"]
           ELSE /\ pc' = [pc EXCEPT ![t] = next]
                /\ UNCHANGED loc
  /\ UNCHANGED st
\* _observed, lines 209-218, seen from run_pipeline, lines 309-313: the failure
\* is recorded and re-raised, and the except branch of run_pipeline keeps it
NodeRaises(t, node) ==
  /\ node \in scope.raises
  /\ steps' = ObservedRaise(t, node)
  /\ runs' = Traced(t, node, "raise")
  /\ loc' = [loc EXCEPT ![t].pipeline_error = node,
                        ![t].final_state = ErrorState(args[t].initial_state)]
  /\ pc' = [pc EXCEPT ![t] = HaltedPc(t)]
  /\ UNCHANGED st

\* a graph whose improve stage leads straight to finalize
EdgeFromSkipsAssess(node) == IF node = "enhance" THEN "generate_video" ELSE "END"
\* build_workflow, lines 270-271: enhance -> quality_check, generate_video -> END
EdgeFrom(node) == IF node = "enhance" THEN "quality_check" ELSE "END"

\* an orchestrator that hands the run to the replay as soon as the improve
\* stage has returned, before the graph has reached its end
NodeReturnsReplaysEarly(t, node, outcome, update, next) ==
  /\ steps' = _collect_step(t, node, ObservedStatus(FALSE))
  /\ runs' = Traced(t, node, outcome)
  /\ st' = [st EXCEPT ![t] = update]
  /\ IF next = "END" \/ node = "enhance"
       THEN /\ loc' = [loc EXCEPT ![t].final_state = update]
            /\ pc' = [pc EXCEPT ![t] = "replay"]
       ELSE /\ pc' = [pc EXCEPT ![t] = next]
            /\ UNCHANGED loc
\* _observed wrapper around a node that returns `update`, then the edge to `next`
NodeReturns(t, node, outcome, update, next) ==
  /\ steps' = _collect_step(t, node, ObservedStatus(FALSE))
  /\ runs' = Traced(t, node, outcome)
  /\ st' = [st EXCEPT ![t] = update]
  /\ IF next = "END"
       THEN /\ loc' = [loc EXCEPT ![t].final_state = update]
            /\ pc' = [pc EXCEPT ![t] = "replay"]
       ELSE /\ pc' = [pc EXCEPT ![t] = next]
            /\ UNCHANGED loc

QualityCheck(t) ==
  /\ pc[t] = "quality_check"
  /\ \/ NodeRaises(t, "quality_check")
     \/ \E passed \in scope.passes :
          LET s == QualityCheckUpdate(st[t], passed)
          IN  NodeReturns(t, "quality_check", IF passed THEN "pass" ELSE "fail",
                          s, _should_continue(s))
  /\ UNCHANGED <<config, scope, args, observe_workflows, galileo_init_done,
                 galileo_lock, calls, counters>>

\* the iteration count is explored up to one past the largest limit
Enhance(t) ==
  /\ pc[t] = "enhance"
  /\ st[t].enhancement_iteration <= MaxLimit + 1
  /\ \/ NodeRaises(t, "enhance")
     \/ NodeReturns(t, "enhance", "ok", EnhanceUpdate(st[t]), EdgeFrom("enhance"))
  /\ UNCHANGED <<config, scope, args, observe_workflows, galileo_init_done,
                 galileo_lock, calls, counters>>

GenerateVideo(t) ==
  /\ pc[t] = "generate_video"
  /\ \/ NodeRaises(t, "generate_video")
     \/ NodeReturns(t, "generate_video", "ok", GenerateVideoUpdate(st[t]),
                    EdgeFrom("generate_video"))
  /\ UNCHANGED <<config, scope, args, observe_workflows, galileo_init_done,
                 galileo_lock, calls, counters>>

\* ---------------------------------------------------------- _init_galileo
\* a run_pipeline that flushes whatever defer_upload says
ReplayReturnPcAlwaysFlush(t) == "flush"
\* where control goes when the replay returns (lines 327-328) ...
ReplayReturnPc(t) == IF args[t].defer_upload THEN "finish" ELSE "flush"
\* ... and when flush_galileo returns, to run_pipeline or to a batch caller
FlushReturnPc(t) == IF args[t].run # 0 THEN "finish" ELSE "idle"

\* callers that use the client without testing it for None
AfterInitUnguarded(t, caller, ow) ==
  IF caller = "replay" THEN "replay_lock" ELSE "flush_lock"
\* where control goes when _init_galileo returns `ow` to its caller
AfterInit(t, caller, ow) ==
  IF caller = "replay"
    THEN (IF ow = None THEN ReplayReturnPc(t) ELSE "replay_lock")
    ELSE (IF ow = None THEN FlushReturnPc(t) ELSE "flush_lock")

\* flush_galileo returns 0 without a client (line 176)
InitReturns(t, caller, ow) ==
  /\ pc' = [pc EXCEPT ![t] = AfterInit(t, caller, ow)]
  /\ loc' = [loc EXCEPT ![t].ow = ow, ![t].caller = caller,
                        ![t].flushed = IF caller = "flush" /\ ow = None THEN 0 ELSE @,
                        ![t].done = IF ow = None THEN Append(@, caller) ELSE @]

\* lines 41-42: the call itself and the test of _galileo_init_done
InitCheck(t) ==
  /\ pc[t] \in {"replay", "flush"}
  /\ IF galileo_init_done
       THEN InitReturns(t, pc[t], observe_workflows)
       ELSE /\ pc' = [pc EXCEPT ![t] = "init_mark"]
            /\ loc' = [loc EXCEPT ![t].caller = pc[t]]
  /\ UNCHANGED <<config, scope, args, st, steps, observe_workflows,
                 galileo_init_done, galileo_lock, calls, runs, counters>>

\* lines 44-55: mark done, give up without library or API key
InitMark(t) ==
  /\ pc[t] = "init_mark"
  /\ galileo_init_done' = TRUE
  /\ IF config = "ok"
       THEN /\ pc' = [pc EXCEPT ![t] = "init_construct"]
            /\ UNCHANGED loc
       ELSE InitReturns(t, loc[t].caller, None)
  /\ UNCHANGED <<config, scope, args, st, steps, observe_workflows,
                 galileo_lock, calls, runs, counters>>

\* lines 57-63: construct the client; a failure is caught and yields None
InitConstruct(t) ==
  /\ pc[t] = "init_construct"
  /\ \/ /\ observe_workflows' = counters.clients + 1
        /\ counters' = [counters EXCEPT !.clients = @ + 1, !.built = @ + 1]
        /\ pc' = [pc EXCEPT ![t] = "init_return"]
        /\ UNCHANGED loc
     \/ /\ CanFault
        /\ counters' = [Fault EXCEPT !.built = @ + 1]
        /\ InitReturns(t, loc[t].caller, None)
        /\ UNCHANGED observe_workflows
  /\ UNCHANGED <<config, scope, args, st, steps, galileo_init_done,
                 galileo_lock, calls, runs>>

\* line 65: return the module global
InitReturn(t) ==
  /\ pc[t] = "init_return"
  /\ InitReturns(t, loc[t].caller, observe_workflows)
  /\ UNCHANGED <<config, scope, args, st, steps, observe_workflows,
                 galileo_init_done, galileo_lock, calls, runs, counters>>

\* ------------------------------------------------ _replay_workflow_to_galileo
\* a summary that counts only codes above 500 as errors
HasErrorsAbove500(buf) == \E i \in 1..Len(buf) : buf[i].status_code > 500
\* line 128: has_errors = any(s.status_code >= 400 for s in steps)
HasErrors(buf) == \E i \in 1..Len(buf) : buf[i].status_code >= 400

\* lines 129 and 321
WfCode(workflow_status_code, has_errors) ==
  IF workflow_status_code >= 400 THEN workflow_status_code
  ELSE IF has_errors THEN 500 ELSE 200

WfStatus(pipeline_error) == IF pipeline_error # "none" THEN 500 ELSE 200

\* entering the critical section without waiting for the lock
LockFreeAlways(t) == TRUE
\* `with _galileo_lock:` the lock is free for the caller to take
LockFree(t) == galileo_lock = NoThread

\* lines 127-131: read the buffer, compute the codes, take the lock
ReplayLock(t) ==
  /\ pc[t] = "replay_lock"
  /\ LockFree(t)
  /\ galileo_lock' = t
  /\ LET he == HasErrors(_get_step_buffer(t))
     IN  loc' = [loc EXCEPT ![t].has_errors = he,
                            ![t].wf_code = WfCode(WfStatus(loc[t].pipeline_error), he),
                            ![t].idx = 1]
  /\ pc' = [pc EXCEPT ![t] = "replay_begin"]
  /\ UNCHANGED <<config, scope, args, st, steps, observe_workflows,
                 galileo_init_done, calls, runs, counters>>

\* acquire() and release() without try/finally: an exception keeps the lock
WithExitLeaks(t, raised) == IF raised THEN t ELSE NoThread
\* leaving a `with _galileo_lock:` block releases the lock, also on an exception
WithExit(t, raised) == NoThread

\* a replay without the except clause: the exception travels on
ReplayCaughtNot(exc) == exc
\* the exception that leaves the try block of the replay (lines 165-166)
ReplayCaught(exc) == "none"

\* a replay that catches the failure of each remote call separately and
\* carries on with the conclude call
ReplayAbortsCarriesOn(t, call) ==
  /\ CanFault
  /\ counters' = Fault
  /\ calls' = Append(calls, call)
  /\ galileo_lock' = IF pc[t] = "replay_conclude" THEN WithExit(t, TRUE) ELSE t
  /\ pc' = [pc EXCEPT ![t] = IF pc[t] = "replay_conclude"
                               THEN "replay_clear" ELSE "replay_conclude"]
  /\ loc' = [loc EXCEPT ![t].escaped = ReplayCaught("TelemetryError")]
\* a remote call raises: the except clause logs it and the with block releases
\* the lock; the remaining calls are skipped
ReplayAborts(t, call) ==
  /\ CanFault
  /\ counters' = Fault
  /\ calls' = Append(calls, call)
  /\ galileo_lock' = WithExit(t, TRUE)
  /\ pc' = [pc EXCEPT ![t] = "replay_clear"]
  /\ loc' = [loc EXCEPT ![t].escaped = ReplayCaught("TelemetryError")]

\* lines 134-142: ow.add_agent_workflow
ReplayBegin(t) ==
  /\ pc[t] = "replay_begin"
  /\ \/ /\ calls' = Append(calls, Call("begin", t, loc[t].ow, TRUE, NoRec,
                                       loc[t].wf_code, loc[t].has_errors))
        /\ pc' = [pc EXCEPT ![t] = IF loc[t].idx <= Len(_get_step_buffer(t))
                                     THEN "replay_step" ELSE "replay_conclude"]
        /\ UNCHANGED <<galileo_lock, loc, counters>>
     \/ ReplayAborts(t, Call("begin", t, loc[t].ow, FALSE, NoRec,
                             loc[t].wf_code, loc[t].has_errors))
  /\ UNCHANGED <<config, scope, args, st, steps, observe_workflows,
                 galileo_init_done, runs>>

\* lines 144-155: the for loop asks the list for its next record and hands it
\* to ow.add_tool_step; the loop ends when the list has no record at the index
ReplayStep(t) ==
  /\ pc[t] = "replay_step"
  /\ IF loc[t].idx <= Len(_get_step_buffer(t))
       THEN LET step == _get_step_buffer(t)[loc[t].idx]
            IN  \/ /\ calls' = Append(calls, Call("step", t, loc[t].ow, TRUE, step,
                                                  step.status_code, FALSE))
                   /\ loc' = [loc EXCEPT ![t].idx = @ + 1]
                   /\ pc' = [pc EXCEPT ![t] =
                               IF loc[t].idx + 1 <= Len(_get_step_buffer(t))
                                 THEN "replay_step" ELSE "replay_conclude"]
                   /\ UNCHANGED <<galileo_lock, counters>>
                \/ ReplayAborts(t, Call("step", t, loc[t].ow, FALSE, step,
                                        step.status_code, FALSE))
       ELSE /\ pc' = [pc EXCEPT ![t] = "replay_conclude"]
            /\ UNCHANGED <<calls, loc, galileo_lock, counters>>
  /\ UNCHANGED <<config, scope, args, st, steps, observe_workflows,
                 galileo_init_done, runs>>

\* lines 157-164: ow.conclude_workflow, then the with block releases the lock
ReplayConclude(t) ==
  /\ pc[t] = "replay_conclude"
  /\ \/ /\ calls' = Append(calls, Call("conclude", t, loc[t].ow, TRUE, NoRec,
                                       loc[t].wf_code, FALSE))
        /\ galileo_lock' = WithExit(t, FALSE)
        /\ pc' = [pc EXCEPT ![t] = "replay_clear"]
        /\ UNCHANGED <<loc, counters>>
     \/ ReplayAborts(t, Call("conclude", t, loc[t].ow, FALSE, NoRec,
                             loc[t].wf_code, FALSE))
  /\ UNCHANGED <<config, scope, args, st, steps, observe_workflows,
                 galileo_init_done, runs>>

\* line 169: steps.clear(), then back in run_pipeline (line 327)
ReplayClear(t) ==
  /\ pc[t] = "replay_clear"
  /\ steps' = [steps EXCEPT ![BufferOf(t)] = Cleared(@)]
  /\ pc' = [pc EXCEPT ![t] = ReplayReturnPc(t)]
  /\ loc' = [loc EXCEPT ![t].done = Append(@, "replay")]
  /\ UNCHANGED <<config, scope, args, st, observe_workflows,
                 galileo_init_done, galileo_lock, calls, runs, counters>>

\* ------------------------------------------------------------ flush_galileo
\* line 177: take the lock
FlushLock(t) ==
  /\ pc[t] = "flush_lock"
  /\ LockFree(t)
  /\ galileo_lock' = t
  /\ pc' = [pc EXCEPT ![t] = "flush_upload"]
  /\ UNCHANGED <<config, scope, args, st, loc, steps, observe_workflows,
                 galileo_init_done, calls, runs, counters>>

\* a flush that reports the pending workflows although the upload raised
FlushFailedCountPending(n) == n
\* value flush_galileo returns when upload_workflows raises (line 185)
FlushFailedCount(n) == 0

\* a flush without the except clause: the exception travels on
FlushCaughtNot(exc) == exc
\* the exception that leaves the try block of the flush (lines 183-185)
FlushCaught(exc) == "none"

\* lines 178-185: ow.upload_workflows(); return len(results), or 0 when it raises
FlushUpload(t) ==
  /\ pc[t] = "flush_upload"
  /\ LET n == PendingWorkflows(loc[t].ow)
     IN  \/ /\ calls' = Append(calls, Call("upload", t, loc[t].ow, TRUE, NoRec, n, FALSE))
            /\ loc' = [loc EXCEPT ![t].flushed = n, ![t].done = Append(@, "flush")]
            /\ galileo_lock' = WithExit(t, FALSE)
            /\ UNCHANGED counters
         \/ /\ CanFault
            /\ counters' = Fault
            /\ calls' = Append(calls, Call("upload", t, loc[t].ow, FALSE, NoRec, n, FALSE))
            /\ loc' = [loc EXCEPT ![t].flushed = FlushFailedCount(n),
                                  ![t].escaped = FlushCaught("TelemetryError"),
                                  ![t].done = Append(@, "flush")]
            /\ galileo_lock' = WithExit(t, TRUE)
  /\ pc' = [pc EXCEPT ![t] = FlushReturnPc(t)]
  /\ UNCHANGED <<config, scope, args, st, steps, observe_workflows,
                 galileo_init_done, runs>>

\* stand-alone call of flush_galileo by a batch caller
CallFlush(t) ==
  /\ pc[t] = "idle" /\ t \in scope.callers
  /\ counters.standalone < scope.calls
  /\ counters' = [counters EXCEPT !.standalone = @ + 1]
  /\ args' = [args EXCEPT ![t] = NoArgs]
  /\ loc' = [loc EXCEPT ![t] = NoLoc]
  /\ pc' = [pc EXCEPT ![t] = "flush"]
  /\ UNCHANGED <<config, scope, st, steps, observe_workflows,
                 galileo_init_done, galileo_lock, calls, runs>>

\* ------------------------------------------------------------ reset_galileo
\* line 191
ResetClient(t) ==
  /\ pc[t] = "idle" /\ t \in scope.callers
  /\ counters.standalone < scope.calls
  /\ counters' = [counters EXCEPT !.standalone = @ + 1]
  /\ observe_workflows' = None
  /\ pc' = [pc EXCEPT ![t] = "reset_done"]
  /\ UNCHANGED <<config, scope, args, st, loc, steps, galileo_init_done,
                 galileo_lock, calls, runs>>

\* line 192
ResetDone(t) ==
  /\ pc[t] = "reset_done"
  /\ galileo_init_done' = FALSE
  /\ counters' = [counters EXCEPT !.built = 0]
  /\ pc' = [pc EXCEPT ![t] = "idle"]
  /\ UNCHANGED <<config, scope, args, st, loc, steps, observe_workflows,
                 galileo_lock, calls, runs>>

\* --------------------------------------------------- run_pipeline, the end
\* a run_pipeline that re-raises whatever the caller asked for
ShouldReraiseAlways(pipeline_error, raise_on_error) == pipeline_error # "none"
\* lines 330-331: if pipeline_error and raise_on_error: raise pipeline_error
ShouldReraise(pipeline_error, raise_on_error) ==
  pipeline_error # "none" /\ raise_on_error

\* lines 330-333: re-raise the node's exception or return final_state
Finish(t) ==
  /\ pc[t] = "finish"
  /\ LET r == args[t].run
         raised == ShouldReraise(loc[t].pipeline_error, args[t].raise_on_error)
     IN  runs' = [runs EXCEPT
           ![r].after = loc[t].done,
           ![r].result = IF raised \/ loc[t].escaped # "none"
                           THEN "raised" ELSE "returned",
           ![r].state = loc[t].final_state,
           ![r].error = IF loc[t].escaped # "none" THEN loc[t].escaped
                        ELSE IF raised THEN loc[t].pipeline_error ELSE "none"]
  /\ pc' = [pc EXCEPT ![t] = "idle"]
  /\ args' = [args EXCEPT ![t] = NoArgs]
  /\ st' = [st EXCEPT ![t] = InitialState(0)]
  /\ loc' = [loc EXCEPT ![t] = NoLoc]
  /\ UNCHANGED <<config, scope, steps, observe_workflows,
                 galileo_init_done, galileo_lock, calls, counters>>

Next ==
  \E t \in Threads :
    \/ RunStart(t) \/ QualityCheck(t) \/ Enhance(t) \/ GenerateVideo(t)
    \/ InitCheck(t) \/ InitMark(t) \/ InitConstruct(t) \/ InitReturn(t)
    \/ ReplayLock(t) \/ ReplayBegin(t) \/ ReplayStep(t) \/ ReplayConclude(t)
    \/ ReplayClear(t)
    \/ FlushLock(t) \/ FlushUpload(t) \/ CallFlush(t)
    \/ ResetClient(t) \/ ResetDone(t)
    \/ Finish(t)

Spec == Init /\ [][Next]_vars
SpecSeq == InitSeq /\ [][Next]_vars
SpecConc == InitConc /\ [][Next]_vars
InitTwin == InitWith(ScopeTwin)
SpecTwin == InitTwin /\ [][Next]_vars

\* node steps are taken whenever they are enabled: each node invocation returns
\* or raises, and the graph runner schedules the next node
Orchestrate(t) == QualityCheck(t) \/ Enhance(t) \/ GenerateVideo(t)
FairSpec == Init /\ [][Next]_vars /\ \A t \in Threads : WF_vars(Orchestrate(t))

\* the steps of _init_galileo, the replay and the flush are taken whenever they
\* stay enabled: the scheduler is fair, and every remote call returns or raises
Telemetry(t) ==
  \/ InitCheck(t) \/ InitMark(t) \/ InitConstruct(t) \/ InitReturn(t)
  \/ ReplayLock(t) \/ ReplayBegin(t) \/ ReplayStep(t) \/ ReplayConclude(t)
  \/ ReplayClear(t) \/ FlushLock(t) \/ FlushUpload(t)
InitLock == InitWith(ScopeLock)
FairSpecLock ==
  InitLock /\ [][Next]_vars /\ \A t \in Threads : WF_vars(Telemetry(t))

\* ------------------------------------------------------------ vocabulary
Running(t) == args[t].run # 0
InGraph(t) == pc[t] \in {"quality_check", "enhance", "generate_video"}
RunIds == 1..Len(runs)
Finished(r) == runs[r].result # "running"

\* the thread is inside _replay_workflow_to_galileo, before line 169
InReplay(t) ==
  \/ pc[t] \in {"replay", "replay_lock", "replay_begin", "replay_step",
                 "replay_conclude", "replay_clear"}
  \/ pc[t] \in {"init_mark", "init_construct", "init_return"} /\ loc[t].caller = "replay"

\* the thread is between its begin-workflow call and the end of the with block
Transmitting(t) == pc[t] \in {"replay_step", "replay_conclude"}

CallsOf(r, op, ok) ==
  {i \in 1..Len(calls) : calls[i].run = r /\ calls[i].op = op /\ calls[i].ok = ok}
Begun(r) == CallsOf(r, "begin", TRUE) # {}
Concluded(r) == CallsOf(r, "conclude", TRUE) # {}

CountNode(trace, node) ==
  Cardinality({i \in 1..Len(trace) : trace[i].node = node})

\* ------------------------------------------------------------------ C1
\* C1: in every state of every run started with enhancement_iteration = 0,
\* 0 <= enhancement_iteration <= max_iterations, whatever integer limit the
\* caller supplied.
C1_IterationWithinLimit ==
  \A t \in Threads :
    Running(t) =>
      /\ 0 <= st[t].enhancement_iteration
      /\ st[t].enhancement_iteration <= st[t].max_iterations

\* ------------------------------------------------------------------ C2
\* C2: every run terminates: a run started at iteration 0 with
\* max_iterations >= 0 invokes at most 2 * max_iterations + 2 stages, and a
\* thread that is inside the graph eventually leaves it, even when the
\* assessment never passes.
C2_Bound ==
  \A r \in RunIds :
    runs[r].limit >= 0 => Len(runs[r].trace) <= 2 * runs[r].limit + 2
C2_Terminates ==
  /\ []C2_Bound
  /\ \A t \in Threads : InGraph(t) ~> ~InGraph(t)

\* a run with the largest limit that never passed and used the whole bound
C2_Witness ==
  \E r \in RunIds :
    /\ Finished(r) /\ runs[r].limit = MaxLimit
    /\ Len(runs[r].trace) = 2 * MaxLimit + 2
    /\ ~runs[r].state.quality_passed
    /\ runs[r].state.video_output_path = 1

\* ------------------------------------------------------------------ C3
\* C3: replay is atomic: once a replay is over, the backend client has received
\* for that run either begin-workflow, one add-step per buffered record and
\* conclude-workflow, or nothing; no begun-but-unconcluded workflow is left.
C3_ReplayAtomic ==
  \A r \in RunIds :
    LET t == runs[r].thread
    IN  ~(Transmitting(t) /\ args[t].run = r) =>
          \/ ~Begun(r) /\ CallsOf(r, "step", TRUE) = {} /\ ~Concluded(r)
          \/ /\ Begun(r) /\ Concluded(r)
             /\ Cardinality(CallsOf(r, "step", TRUE)) = Len(runs[r].trace)

\* ------------------------------------------------------------------ C4
\* C4: the remote calls of two runs never interleave: the calls of one replay
\* are contiguous in the order the backend receives them, and while a thread
\* is between its begin-workflow and the end of its replay the last call the
\* backend received is its own.
C4_NoInterleaving ==
  /\ \A i, k \in 1..Len(calls) :
        (i < k /\ calls[i].op # "upload" /\ calls[k].op # "upload"
               /\ calls[i].run = calls[k].run) =>
          \A j \in i..k : calls[j].run = calls[i].run /\ calls[j].op # "upload"
  /\ \A t \in Threads :
        Transmitting(t) =>
          /\ calls[Len(calls)].thread = t
          /\ calls[Len(calls)].run = args[t].run
          /\ calls[Len(calls)].op # "upload"

\* two threads contend: one is replaying under the lock while the other waits
\* for the lock with a replay or a flush of its own, after an earlier replay
C4_Witness ==
  \E t, u \in Threads :
    /\ t # u
    /\ pc[t] = "replay_step"
    /\ pc[u] \in {"replay_lock", "flush_lock"}
    /\ \E i \in 1..Len(calls) : calls[i].thread = u

\* ------------------------------------------------------------------ C5
\* C5: with telemetry configured and no remote call failing, every finished
\* run_pipeline call has exactly one begun-and-concluded workflow in the
\* backend, under any interleaving of runs on separate threads.
C5_ExactlyOneWorkflow ==
  (config = "ok" /\ counters.faults = 0) =>
    \A r \in RunIds :
      Finished(r) =>
        /\ Cardinality(CallsOf(r, "begin", TRUE)) = 1
        /\ Cardinality(CallsOf(r, "conclude", TRUE)) = 1

\* ------------------------------------------------------------------ C6
\* C6: no StepRecord is transmitted to the backend more than once: two
\* add-step calls, successful or attempted, never carry the same record.
C6_NoDuplicateStep ==
  \A i, j \in 1..Len(calls) :
    (i < j /\ calls[i].op = "step" /\ calls[j].op = "step") =>
      calls[i].rec # calls[j].rec

\* a thread whose earlier replay failed partway transmits the records of its
\* next run
C6_Witness ==
  \E i, j \in 1..Len(calls) :
    /\ i < j
    /\ calls[i].op = "step" /\ ~calls[i].ok
    /\ calls[j].op = "step" /\ calls[j].ok
    /\ calls[i].thread = calls[j].thread
    /\ calls[i].run < calls[j].run

\* ------------------------------------------------------------------ C7
\* C7: when a run is replayed its buffer holds exactly one StepRecord per stage
\* invocation of that run: 2N+2 records after N improve loops without a
\* failure, the invoked nodes including the failing one otherwise; a replay
\* that succeeded made as many add-step calls.
C7_OneRecordPerInvocation ==
  \A t \in Threads :
    InReplay(t) =>
      LET r == args[t].run
          trace == runs[r].trace
          buf == _get_step_buffer(t)
      IN  /\ Len(buf) = Len(trace)
          /\ \A i \in 1..Len(buf) : buf[i].node_name = trace[i].node /\ buf[i].run = r
          /\ loc[t].pipeline_error = "none" =>
                Len(buf) = 2 * CountNode(trace, "enhance") + 2
          /\ Concluded(r) =>
                Cardinality(CallsOf(r, "step", TRUE)) = Len(trace)

\* a run with the largest number of improve loops has been replayed in full
C7_Witness ==
  \E t \in Threads :
    /\ pc[t] = "replay_clear"
    /\ Concluded(args[t].run)
    /\ CountNode(runs[args[t].run].trace, "enhance") = MaxLimit
    /\ Len(_get_step_buffer(t)) = 2 * MaxLimit + 2

\* ------------------------------------------------------------------ C8
\* the state a run returns when telemetry plays no part: the updates of the
\* nodes that returned, merged in order into the initial state
RECURSIVE Merged(_, _, _)
Merged(s, trace, n) ==
  IF n = 0 THEN s
  ELSE LET before == Merged(s, trace, n - 1)
           e == trace[n]
       IN  IF e.outcome = "raise" THEN before
           ELSE IF e.node = "quality_check"
                  THEN QualityCheckUpdate(before, e.outcome = "pass")
           ELSE IF e.node = "enhance" THEN EnhanceUpdate(before)
           ELSE GenerateVideoUpdate(before)

NodeError(trace) ==
  IF Len(trace) > 0 /\ trace[Len(trace)].outcome = "raise"
    THEN trace[Len(trace)].node ELSE "none"

\* C8: telemetry failures never alter the outcome of run_pipeline: whatever
\* remote call or client construction raised, the run raises only its node's
\* error (and only with raise_on_error), and otherwise returns the state its
\* nodes produced.
C8_TelemetryNeverAltersOutcome ==
  \A r \in RunIds :
    Finished(r) =>
      LET trace == runs[r].trace
          err == NodeError(trace)
      IN  IF err # "none" /\ runs[r].raise_on_error
            THEN runs[r].result = "raised" /\ runs[r].error = err
            ELSE /\ runs[r].result = "returned" /\ runs[r].error = "none"
                 /\ runs[r].state =
                      IF err # "none"
                        THEN [InitialState(runs[r].limit) EXCEPT !.status = "PIPELINE_ERROR"]
                        ELSE Merged(InitialState(runs[r].limit), trace, Len(trace))

\* a run finished although one of its replay calls raised
C8_Witness ==
  \E r \in RunIds :
    /\ Finished(r)
    /\ \E i \in 1..Len(calls) : calls[i].run = r /\ ~calls[i].ok /\ calls[i].op # "upload"
    /\ runs[r].result = "returned"
    /\ runs[r].state.video_output_path = 1

\* ------------------------------------------------------------------ C9
\* C9: when the client is configured and upload() raises, flush_galileo
\* returns 0, lets no exception out and leaves the lock released.
C9_FailedFlushReturnsZero ==
  \A t \in Threads :
    ( /\ pc[t] \in {"finish", "idle"}
      /\ loc[t].caller = "flush"
      /\ Len(calls) > 0
      /\ calls[Len(calls)].op = "upload" /\ ~calls[Len(calls)].ok
      /\ calls[Len(calls)].thread = t ) =>
        /\ loc[t].flushed = 0
        /\ loc[t].escaped = "none"
        /\ galileo_lock # t

\* an upload raised while workflows were pending, and a later replay went through
C9_Witness ==
  \E i, j \in 1..Len(calls) :
    /\ i < j
    /\ calls[i].op = "upload" /\ ~calls[i].ok /\ calls[i].code > 0
    /\ calls[j].op = "conclude" /\ calls[j].ok

\* ----------------------------------------------------------------- C10
\* C10: when a node raises the graph halts: the raising invocation is the last
\* of the run, the buffer the replay sees ends with the only status-500 record,
\* every earlier record has status 200, and the run counts as a pipeline error.
C10_NodeFailureHalts ==
  /\ \A r \in RunIds :
        \A i \in 1..Len(runs[r].trace) :
          runs[r].trace[i].outcome = "raise" => i = Len(runs[r].trace)
  /\ \A t \in Threads :
        (Running(t) /\ NodeError(runs[args[t].run].trace) # "none") =>
          /\ ~InGraph(t)
          /\ loc[t].pipeline_error = NodeError(runs[args[t].run].trace)
          /\ loc[t].final_state.status = "PIPELINE_ERROR"
          /\ WfStatus(loc[t].pipeline_error) = 500
          /\ InReplay(t) =>
                LET buf == _get_step_buffer(t)
                IN  /\ Len(buf) >= 1
                    /\ buf[Len(buf)].status_code = 500
                    /\ \A i \in 1..(Len(buf) - 1) : buf[i].status_code = 200

\* a node raised after two stages had completed, and the replay has begun
C10_Witness ==
  \E t \in Threads :
    /\ pc[t] = "replay_step"
    /\ loc[t].pipeline_error = "quality_check"
    /\ Len(_get_step_buffer(t)) = 3

\* ------------------------------------------------------------------- C11
\* C11: with raise_on_error false, run_pipeline never raises because of a node
\* failure: it returns, and the status of the state it returns begins with
\* PIPELINE_ERROR exactly when some node raised during the run.
C11_ErrorReturnedNotRaised ==
  \A r \in RunIds :
    (Finished(r) /\ ~runs[r].raise_on_error) =>
      /\ runs[r].result = "returned"
      /\ runs[r].error = "none"
      /\ (runs[r].state.status = "PIPELINE_ERROR") <=>
            (\E i \in 1..Len(runs[r].trace) : runs[r].trace[i].outcome = "raise")

\* a run with raise_on_error false returned after its improve stage raised
C11_Witness ==
  \E r \in RunIds :
    /\ Finished(r) /\ ~runs[r].raise_on_error
    /\ NodeError(runs[r].trace) = "enhance"
    /\ runs[r].result = "returned"
    /\ runs[r].state.status = "PIPELINE_ERROR"

\* ------------------------------------------------------------------- C12
\* the state the nodes had produced when the run stopped
LastKnownState(r) ==
  Merged(InitialState(runs[r].limit), runs[r].trace, Len(runs[r].trace))

\* C12: when a node raises and raise_on_error is false, the state returned is
\* the last known RunState: it carries the outputs merged from the stages
\* that completed before the failure, with the error status.
C12_ReturnsLastKnownState ==
  \A r \in RunIds :
    (Finished(r) /\ ~runs[r].raise_on_error /\ NodeError(runs[r].trace) # "none") =>
      runs[r].state = [LastKnownState(r) EXCEPT !.status = "PIPELINE_ERROR"]

\* ------------------------------------------------------------------- C13
\* C13: with raise_on_error true, a node failure reaches the caller only after
\* the replay of that run has returned and, when defer_upload is false, after
\* flush_galileo has returned; what is raised is the node's own exception.
C13_ReraisedAfterReplay ==
  \A r \in RunIds :
    (Finished(r) /\ runs[r].raise_on_error /\ NodeError(runs[r].trace) # "none") =>
      /\ runs[r].result = "raised"
      /\ runs[r].error = NodeError(runs[r].trace)
      /\ runs[r].after = IF runs[r].defer_upload
                            THEN <<"replay">> ELSE <<"replay", "flush">>
      /\ Begun(r) =>
            \/ Concluded(r)
            \/ \E i \in 1..Len(calls) : calls[i].run = r /\ ~calls[i].ok

\* a failed run was replayed to the backend, flushed, and then raised
C13_Witness ==
  \E r \in RunIds :
    /\ runs[r].result = "raised"
    /\ runs[r].error = "generate_video"
    /\ ~runs[r].defer_upload
    /\ Concluded(r)
    /\ runs[r].after = <<"replay", "flush">>

\* ------------------------------------------------------------------- C14
\* the aggregate status of run r, from what its nodes did
ExpectedWfCode(r) ==
  IF NodeError(runs[r].trace) # "none" THEN 500
  ELSE IF \E i \in 1..Len(runs[r].trace) : runs[r].trace[i].outcome = "raise"
         THEN 500 ELSE 200

\* C14: the status code sent with conclude-workflow is 500 when run_pipeline
\* reported a pipeline failure, else 500 when a buffered step has a status of
\* 400 or more, else 200; the has_errors and workflow_status metadata sent with
\* begin-workflow agree with that computation over the same steps.
C14_WorkflowStatusCode ==
  \A i \in 1..Len(calls) :
    LET c == calls[i]
        r == c.run
    IN  /\ c.op = "conclude" => c.code = ExpectedWfCode(r)
        /\ c.op = "begin" =>
              /\ c.code = ExpectedWfCode(r)
              /\ c.has_errors =
                    (\E k \in 1..Len(runs[r].trace) : runs[r].trace[k].outcome = "raise")
        /\ (c.op = "conclude" /\ c.ok) =>
              \E b \in CallsOf(r, "begin", TRUE) :
                /\ calls[b].code = c.code
                /\ calls[b].has_errors =
                      (\E k \in CallsOf(r, "step", TRUE) : calls[k].code >= 400)

\* a failed run was concluded with 500 after a begin that announced errors
C14_Witness ==
  \E r \in RunIds :
    /\ \E b \in CallsOf(r, "begin", TRUE) : calls[b].has_errors /\ calls[b].code = 500
    /\ \E k \in CallsOf(r, "step", TRUE) : calls[k].code = 200
    /\ \E c \in CallsOf(r, "conclude", TRUE) : calls[c].code = 500

\* ------------------------------------------------------------------- C15
\* C15: whenever the router sends a run to generate_video with the pass flag
\* false (the forced exit), enhancement_iteration equals max_iterations.
C15_ForcedExitAtLimit ==
  \A t \in Threads :
    (pc[t] = "generate_video" /\ ~st[t].quality_passed) =>
      st[t].enhancement_iteration = st[t].max_iterations

\* ------------------------------------------------------------------- C16
NoRaise(trace) == \A i \in 1..Len(trace) : trace[i].outcome # "raise"
CountOutcome(trace, outcome) ==
  Cardinality({i \in 1..Len(trace) : trace[i].outcome = outcome})

\* C16: when the assessment fails on attempts 1..k and passes on attempt k+1,
\* with k <= max_iterations and no node raising, the run is still in its loop
\* after each of the k failures, and it ends after exactly k+1 quality_check,
\* k enhance and one generate_video step with the pass flag true and
\* enhancement_iteration = k.
C16_PassAfterKFailures ==
  \A r \in RunIds :
    LET trace == runs[r].trace
        k == CountOutcome(trace, "fail")
    IN  (NoRaise(trace) /\ k <= runs[r].limit) =>
          /\ CountOutcome(trace, "pass") = 0 =>
                /\ CountNode(trace, "generate_video") = 0
                /\ ~Finished(r)
          /\ (Finished(r) /\ CountOutcome(trace, "pass") > 0) =>
                /\ CountNode(trace, "quality_check") = k + 1
                /\ CountNode(trace, "enhance") = k
                /\ CountNode(trace, "generate_video") = 1
                /\ trace[Len(trace) - 1] = [node |-> "quality_check", outcome |-> "pass"]
                /\ runs[r].state.quality_passed
                /\ runs[r].state.enhancement_iteration = k

\* one failure, then a pass, under the largest limit
C16_Witness ==
  \E r \in RunIds :
    /\ Finished(r) /\ NoRaise(runs[r].trace)
    /\ runs[r].limit = MaxLimit
    /\ CountNode(runs[r].trace, "quality_check") = 2
    /\ CountNode(runs[r].trace, "enhance") = 1
    /\ runs[r].state.quality_passed
    /\ runs[r].state.enhancement_iteration = 1

\* ------------------------------------------------------------------- C17
\* C17: with max_iterations = L >= 0 no run invokes quality_check more than
\* L+1 times, enhance more than L times or generate_video more than once; a
\* run whose assessment never passes and whose nodes never raise ends after
\* exactly L+1 quality_check and L enhance steps and one generate_video step,
\* reached through the forced exit, with the pass flag false.
C17_NeverPassing ==
  \A r \in RunIds :
    LET trace == runs[r].trace
        L == runs[r].limit
    IN  L >= 0 =>
          /\ CountNode(trace, "quality_check") <= L + 1
          /\ CountNode(trace, "enhance") <= L
          /\ CountNode(trace, "generate_video") <= 1
          /\ (Finished(r) /\ NoRaise(trace) /\ CountOutcome(trace, "pass") = 0) =>
                /\ CountNode(trace, "quality_check") = L + 1
                /\ CountNode(trace, "enhance") = L
                /\ CountNode(trace, "generate_video") = 1
                /\ trace[Len(trace) - 1] = [node |-> "quality_check", outcome |-> "fail"]
                /\ ~runs[r].state.quality_passed
                /\ runs[r].state.enhancement_iteration = L

\* a run under the largest limit used every iteration and was forced out
C17_Witness ==
  \E r \in RunIds :
    /\ Finished(r) /\ NoRaise(runs[r].trace)
    /\ runs[r].limit = MaxLimit
    /\ CountOutcome(runs[r].trace, "fail") = MaxLimit + 1
    /\ CountNode(runs[r].trace, "enhance") = MaxLimit
    /\ runs[r].state.video_output_path = 1
    /\ ~runs[r].state.quality_passed

\* ------------------------------------------------------------------- C18
\* the transition table of the specification, for the state after the assessment
TableAfterAssess(s) ==
  IF s.quality_passed THEN "generate_video"
  ELSE IF s.enhancement_iteration >= s.max_iterations THEN "generate_video"
  ELSE "enhance"

\* thread t, inside the graph, leaves its node in this step
Transition(t) ==
  /\ InGraph(t)
  /\ \/ pc'[t] # pc[t]
     \/ runs'[args[t].run].trace # runs[args[t].run].trace

\* C18: every transition of the graph invokes exactly one instrumented node,
\* the one the run was at, and follows the table: after quality_check a true
\* pass flag leads to generate_video, else a count at or past the limit leads
\* to generate_video, else enhance; enhance leads back to quality_check;
\* generate_video leads out of the graph.
C18_TransitionTable ==
  [][\A t \in Threads :
       Transition(t) =>
         LET before == runs[args[t].run].trace
             after == runs'[args[t].run].trace
         IN  /\ after = Append(before, after[Len(after)])
             /\ after[Len(after)].node = pc[t]
             /\ IF after[Len(after)].outcome = "raise"
                  THEN ~InGraph(t)'
                  ELSE pc'[t] =
                         CASE pc[t] = "quality_check" -> TableAfterAssess(st'[t])
                           [] pc[t] = "enhance" -> "quality_check"
                           [] pc[t] = "generate_video" -> "replay"]_vars

\* the assessment passed with the count at the limit: not a forced exit
C18_Witness ==
  \E t \in Threads :
    /\ pc[t] = "generate_video"
    /\ st[t].quality_passed
    /\ st[t].enhancement_iteration = st[t].max_iterations
    /\ st[t].enhancement_iteration > 0

\* ------------------------------------------------------------------- C19
\* thread t holds the value its last call of _init_galileo returned
InitReturned(t) ==
  /\ loc[t].caller # "none"
  /\ pc[t] \notin {"init_mark", "init_construct", "init_return"}

\* C19: since the last reset_galileo the client has been constructed, or its
\* construction attempted, at most once; without the library or the API key it
\* is never constructed; and before any reset every thread inside a replay or
\* a flush holds the one instance the module holds.
C19_ClientLifecycle ==
  /\ counters.built <= 1
  /\ config # "ok" => (counters.built = 0 /\ observe_workflows = None)
  /\ counters.standalone = 0 =>
        \A t \in Threads :
          (InitReturned(t) /\ loc[t].ow # None) => loc[t].ow = observe_workflows

\* ------------------------------------------------------------------- C20
\* C20: with valid configuration, no construction failure and no reset, threads
\* that call _init_galileo concurrently construct the client exactly once and
\* every one of them is handed that instance, never None.
C20_ConcurrentInitOnce ==
  (config = "ok" /\ counters.faults = 0 /\ counters.standalone = 0) =>
    /\ counters.clients <= 1
    /\ \A t \in Threads : InitReturned(t) => loc[t].ow = 1

\* ------------------------------------------------------------------- C21
\* the workflows the upload call at position u of the log carries to the backend
UploadedBy(u) ==
  IF ~calls[u].ok THEN {}
  ELSE {b \in 1..(u - 1) :
          /\ calls[b].op = "begin" /\ calls[b].ok /\ calls[b].client = calls[u].client
          /\ \A v \in (b + 1)..(u - 1) :
                ~(calls[v].op = "upload" /\ calls[v].ok /\ calls[v].client = calls[u].client)}

\* thread t is back from a call of flush_galileo
FlushReturned(t) == loc[t].flushed # -1 /\ pc[t] \in {"finish", "idle"}

UploadsOf(t) == {u \in 1..Len(calls) : calls[u].op = "upload" /\ calls[u].thread = t}
LastOf(S) == CHOOSE u \in S : \A v \in S : v <= u

Uploaded(r) ==
  \E b \in CallsOf(r, "begin", TRUE) :
    \E u \in (b + 1)..Len(calls) :
      calls[u].op = "upload" /\ calls[u].ok /\ calls[u].client = calls[b].client

\* C22: with a working backend, when a call of flush_galileo returns, every
\* workflow whose replay had concluded before that call has been uploaded, by
\* that flush or an earlier one, whatever runs, resets and flushes came before.
C22_FlushUploadsAllReplayed ==
  (config = "ok" /\ counters.faults = 0) =>
    \A t \in Threads :
      (FlushReturned(t) /\ pc[t] = "idle") =>
        \A r \in RunIds : (Finished(r) /\ Concluded(r)) => Uploaded(r)

\* ------------------------------------------------------------------- C23
\* remote calls of run r, by position in the log
UploadCallsOf(r) == {u \in 1..Len(calls) : calls[u].run = r /\ calls[u].op = "upload"}
ReplayCallsOf(r) == {i \in 1..Len(calls) : calls[i].run = r /\ calls[i].op # "upload"}

AtRemoteCall(t) ==
  pc[t] \in {"replay_lock", "replay_begin", "replay_step", "replay_conclude",
             "flush_lock", "flush_upload"}

\* what run r gives its caller, from what its nodes did and nothing else
OutcomeFromNodes(r) ==
  LET err == NodeError(runs[r].trace)
  IN  IF err # "none" /\ runs[r].raise_on_error
        THEN [result |-> "raised", error |-> err,
              state |-> ErrorState(InitialState(runs[r].limit))]
        ELSE [result |-> "returned", error |-> "none",
              state |-> IF err # "none" THEN ErrorState(InitialState(runs[r].limit))
                        ELSE LastKnownState(r)]

\* C24: while the client is disabled (no library, no API key, or construction
\* raised) replay and flush make no remote call, flush_galileo returns 0, and a
\* run goes through its stages and ends exactly as its nodes decide.
C24_DisabledIsSilent ==
  /\ \A i \in 1..Len(calls) : calls[i].client # None
  /\ \A t \in Threads : AtRemoteCall(t) => loc[t].ow # None
  /\ config # "ok" => (calls = <<>> /\ observe_workflows = None)
  /\ \A t \in Threads :
        (FlushReturned(t) /\ loc[t].ow = None) => loc[t].flushed = 0
  /\ \A r \in RunIds :
        (Finished(r) /\ ReplayCallsOf(r) = {} /\ UploadCallsOf(r) = {}) =>
          /\ runs[r].result = OutcomeFromNodes(r).result
          /\ runs[r].error = OutcomeFromNodes(r).error
          /\ runs[r].state = OutcomeFromNodes(r).state

\* without an API key a run went through all its stages, replayed and flushed
\* nothing, and returned its video
C24_Witness ==
  /\ config = "nokey"
  /\ calls = <<>>
  /\ \E r \in RunIds :
        /\ Finished(r) /\ ~runs[r].defer_upload
        /\ runs[r].after = <<"replay", "flush">>
        /\ CountNode(runs[r].trace, "enhance") = 1
        /\ runs[r].state.video_output_path = 1

\* ------------------------------------------------------------------- C25
\* C25: each call of a wrapped node appends exactly one StepRecord to the
\* buffer of the calling thread and to no other, with status 500 exactly when
\* the node raised and 200 otherwise; when the node raised, its exception
\* reaches run_pipeline after the record is in the buffer and the graph stops.
C25_WrapperRecordsAndReraises ==
  [][\A t \in Threads :
       Transition(t) =>
         LET trace == runs'[args[t].run].trace
             e == trace[Len(trace)]
             rec == steps'[t][Len(steps'[t])]
         IN  /\ steps'[t] = Append(steps[t], rec)
             /\ \A u \in Threads \ {t} : steps'[u] = steps[u]
             /\ rec.node_name = pc[t]
             /\ rec.run = args[t].run
             /\ rec.status_code = (IF e.outcome = "raise" THEN 500 ELSE 200)
             /\ IF e.outcome = "raise"
                  THEN /\ loc'[t].pipeline_error = pc[t]
                       /\ st'[t] = st[t]
                       /\ ~InGraph(t)'
                  ELSE loc'[t].pipeline_error = "none"]_vars

\* a node raised after an earlier stage had returned: the buffer holds a 200
\* record followed by the 500 record, and run_pipeline has the exception
C25_Witness ==
  \E t \in Threads :
    /\ pc[t] = "replay"
    /\ loc[t].pipeline_error = "enhance"
    /\ Len(steps[t]) = 2
    /\ steps[t][1].status_code = 200
    /\ steps[t][2].status_code = 500

\* ------------------------------------------------------------------- C26
\* how many replay calls of run r come before position i of the log
EarlierReplayCalls(r, i) == Cardinality({j \in ReplayCallsOf(r) : j < i})

\* C26: within the replay of a run, begin-workflow is the first call, the k-th
\* add-step call carries the record of the k-th stage the run executed, none
\* skipped or repeated, and conclude-workflow comes after the last of them.
C26_ReplayInExecutionOrder ==
  \A r \in RunIds :
    \A i \in ReplayCallsOf(r) :
      LET k == EarlierReplayCalls(r, i)
          trace == runs[r].trace
      IN  /\ (calls[i].op = "begin") <=> (k = 0)
          /\ calls[i].op = "step" =>
                /\ k <= Len(trace)
                /\ calls[i].rec.run = r
                /\ calls[i].rec.seq = k
                /\ calls[i].rec.node_name = trace[k].node
                /\ calls[i].rec.status_code =
                      (IF trace[k].outcome = "raise" THEN 500 ELSE 200)
          /\ calls[i].op = "conclude" => k = Len(trace) + 1

\* a run of four stages was replayed in full: begin, four steps, conclude
C26_Witness ==
  \E r \in RunIds :
    /\ Len(runs[r].trace) = 4
    /\ Concluded(r)
    /\ Cardinality(CallsOf(r, "step", TRUE)) = 4

\* ------------------------------------------------------------------- C27
\* C27: a record produced by a run on thread T sits only in T's buffer; while
\* a run is under way its thread's buffer holds records of that run only; and
\* every add-step call of a replay carries a record of the run being replayed,
\* never one of another thread or of an earlier run on the same thread.
C27_ThreadIsolation ==
  /\ \A t \in Threads :
        \A i \in 1..Len(steps[t]) :
          /\ runs[steps[t][i].run].thread = t
          /\ Running(t) => steps[t][i].run = args[t].run
  /\ \A i \in 1..Len(calls) :
        calls[i].op = "step" =>
          /\ calls[i].rec.run = calls[i].run
          /\ runs[calls[i].run].thread = calls[i].thread

\* a worker thread whose first run had a failed replay ran a second run, and
\* the replay of that second run sent steps
C27_Witness ==
  \E r1, r2 \in RunIds :
    /\ r1 < r2
    /\ runs[r1].thread = runs[r2].thread
    /\ \E i \in ReplayCallsOf(r1) : ~calls[i].ok
    /\ CallsOf(r2, "step", TRUE) # {}

\* ------------------------------------------------------------------- C28
\* the replay of the run on thread t has returned to run_pipeline
ReplayReturned(t) ==
  Running(t) /\ Len(loc[t].done) >= 1 /\ loc[t].done[1] = "replay"

\* C28: once _replay_workflow_to_galileo has returned, the step buffer of the
\* calling thread is empty, whether every remote call succeeded, one of them
\* raised, or there was no client.
C28_BufferEmptyAfterReplay ==
  \A t \in Threads : ReplayReturned(t) => steps[t] = <<>>

\* ------------------------------------------------------------------- C29
\* positions of the log where a remote call of a replay raised
FailedReplayCalls == {i \in 1..Len(calls) : calls[i].op # "upload" /\ ~calls[i].ok}

\* the points between taking the lock and leaving the with block
HoldsLock(t) ==
  pc[t] \in {"replay_begin", "replay_step", "replay_conclude", "flush_upload"}

\* C29: after a remote call of a replay has raised, that replay makes no
\* further remote call, the lock is free again once the replay has left its
\* with block, and the next replay call in the log, from whatever thread, is
\* the begin-workflow of another run.
C29_AbortedReplayStops ==
  /\ \A i \in FailedReplayCalls :
        /\ \A j \in (i + 1)..Len(calls) :
              calls[j].run = calls[i].run => calls[j].op = "upload"
        /\ (i < Len(calls) /\ calls[i + 1].op # "upload") =>
              (calls[i + 1].op = "begin" /\ calls[i + 1].run # calls[i].run)
  /\ \A t \in Threads : (galileo_lock = t) <=> HoldsLock(t)

\* the replay of one run was cut short after its begin, the lock is free, and
\* the next run was replayed from begin to conclude
C29_Witness ==
  \E i \in FailedReplayCalls :
    /\ calls[i].op = "step"
    /\ galileo_lock = NoThread
    /\ \E r \in RunIds :
          /\ r # calls[i].run
          /\ Concluded(r)
          /\ \A b \in CallsOf(r, "begin", TRUE) : b = i + 1

\* ------------------------------------------------------------------- C30
\* thread t's improve stage returns in this step
EnhanceReturns(t) ==
  /\ pc[t] = "enhance"
  /\ Transition(t)
  /\ runs'[args[t].run].trace[Len(runs'[args[t].run].trace)].outcome # "raise"

\* C30: during a run max_iterations never changes; enhancement_iteration
\* changes only when the improve stage returns, and then by +1; the assessment
\* with the router behind it changes nothing but the scores, the pass flag
\* and the status, and the finalize stage nothing but the video and the status.
C30_IterationFrame ==
  [][\A t \in Threads :
       InGraph(t) =>
         /\ st'[t].max_iterations = st[t].max_iterations
         /\ st'[t].enhancement_iteration =
               st[t].enhancement_iteration + (IF EnhanceReturns(t) THEN 1 ELSE 0)
         /\ pc[t] = "quality_check" =>
               st'[t] = [st[t] EXCEPT !.quality_scores = st'[t].quality_scores,
                                      !.quality_passed = st'[t].quality_passed,
                                      !.status = st'[t].status]
         /\ pc[t] = "generate_video" =>
               st'[t] = [st[t] EXCEPT !.video_output_path = st'[t].video_output_path,
                                      !.status = st'[t].status]]_vars

\* two improve stages have returned and the run has reached finalize
C30_Witness ==
  \E t \in Threads :
    /\ pc[t] = "replay"
    /\ st[t].video_output_path = 1
    /\ st[t].enhancement_iteration = 2
    /\ CountNode(runs[args[t].run].trace, "enhance") = 2
    /\ st[t].max_iterations = args[t].initial_state.max_iterations

\* ------------------------------------------------------------------- C31
\* the graph of run r has come to its end: a node raised or finalize returned
StagesOver(r) ==
  LET trace == runs[r].trace
  IN  /\ Len(trace) > 0
      /\ \/ trace[Len(trace)].outcome = "raise"
         \/ trace[Len(trace)].node = "generate_video"

\* C31: no remote call of a run is in the log while the run is still inside
\* its graph; begin, add-step and conclude calls of a run exist only once its
\* last stage has returned or raised; and a run is executed by one thread, at
\* one stage at a time.
C31_BufferThenReplay ==
  /\ \A t \in Threads :
        InGraph(t) =>
          /\ Running(t)
          /\ ReplayCallsOf(args[t].run) = {} /\ UploadCallsOf(args[t].run) = {}
  /\ \A r \in RunIds : ReplayCallsOf(r) # {} => StagesOver(r)
  /\ \A t \in Threads : Running(t) => runs[args[t].run].thread = t
  /\ \A t, u \in Threads : (Running(t) /\ Running(u) /\ t # u) => args[t].run # args[u].run

\* one run is being transmitted while another run, on the other thread, is
\* still between two stages and has nothing in the log
C31_Witness ==
  \E t, u \in Threads :
    /\ InGraph(t) /\ Len(runs[args[t].run].trace) >= 1
    /\ Transmitting(u)
    /\ CallsOf(args[u].run, "step", TRUE) # {}

\* ------------------------------------------------------------------- C32
\* thread t is inside _replay_workflow_to_galileo or flush_galileo
InTelemetry(t) ==
  pc[t] \in {"replay", "flush", "init_mark", "init_construct", "init_return",
             "replay_lock", "replay_begin", "replay_step", "replay_conclude",
             "replay_clear", "flush_lock", "flush_upload"}

\* C32: under fair scheduling, with remote calls that return or raise, every
\* thread that waits for the replay/flush lock gets it, every thread that
\* holds it lets it go, also after a remote call raised, and every thread that
\* entered the replay or the flush comes back from it.
C32_LockLiveness ==
  \A t \in Threads :
    InTelemetry(t) ~> (pc[t] \in {"finish", "idle"} /\ galileo_lock # t)

\* a thread waits for the lock another thread holds, after a remote call of
\* an earlier replay has raised
C32_Witness ==
  \E t, u \in Threads :
    /\ t # u
    /\ pc[t] = "replay_lock"
    /\ galileo_lock = u
    /\ FailedReplayCalls # {}

\* ------------------------------------------------------------------- C33
\* runs r1 and r2 were started from the same initial state with the same flags
SameInputs(r1, r2) ==
  /\ runs[r1].limit = runs[r2].limit
  /\ runs[r1].raise_on_error = runs[r2].raise_on_error
  /\ runs[r1].defer_upload = runs[r2].defer_upload

\* their nodes behaved alike: the k-th node invocation of one had the outcome
\* of the k-th node invocation of the other, as far as both got
SameNodeBehaviour(r1, r2) ==
  \A k \in 1..Len(runs[r1].trace) :
    k <= Len(runs[r2].trace) => runs[r1].trace[k].outcome = runs[r2].trace[k].outcome

\* every remote call of run r went through
TelemetryWorked(r) ==
  /\ Concluded(r)
  /\ \A i \in 1..Len(calls) : calls[i].run = r => calls[i].ok
\* run r had no client, or one of its remote calls raised
TelemetryBroken(r) ==
  \/ ReplayCallsOf(r) = {}
  \/ \E i \in 1..Len(calls) : calls[i].run = r /\ ~calls[i].ok

\* C33: two runs from the same initial state whose nodes behave alike execute
\* the same sequence of stages and end alike, with the same returned state or
\* the same raised error, whatever telemetry did during either of them.
C33_TelemetryDoesNotInfluence ==
  \A r1, r2 \in RunIds :
    (Finished(r1) /\ Finished(r2) /\ SameInputs(r1, r2) /\ SameNodeBehaviour(r1, r2)) =>
      /\ runs[r1].trace = runs[r2].trace
      /\ runs[r1].result = runs[r2].result
      /\ runs[r1].error = runs[r2].error
      /\ runs[r1].state = runs[r2].state

\* the same failing image was run twice with raise_on_error: once with every
\* remote call going through, once with broken telemetry; both raised
C33_Witness ==
  \E r1, r2 \in RunIds :
    /\ Finished(r1) /\ Finished(r2)
    /\ SameInputs(r1, r2) /\ SameNodeBehaviour(r1, r2)
    /\ TelemetryWorked(r1) /\ TelemetryBroken(r2)
    /\ runs[r1].result = "raised" /\ runs[r2].result = "raised"
    /\ runs[r1].error = "enhance"
====
